---- MODULE Spec2Model ----
(***************************************************************************)
(* Model of the Elyx event system: the message log, the event registry,    *)
(* the decision chain tracker (utils.py), the turn router and the graph    *)
(* nodes (orchestrator.py, agents/) and the week/thread loop (main.py).    *)
(*                                                                         *)
(* The specifications share the variables:                                 *)
(*   SpecEvents   any sequence of create_event / update_event_status       *)
(*   SpecTracker  any sequence of decision chain tracker calls             *)
(*   SpecDetect   detect_decision_point on any last agent response         *)
(*   SpecResume   the start of main(): resume from a checkpoint or not     *)
(*   Spec         the compiled graph driven by main()'s week/thread loop   *)
(*   FairSpec     the same run under weak fairness, for progress           *)
(***************************************************************************)
EXTENDS Integers, Sequences, FiniteSets, TLC

VARIABLES
    pc,                        \* position of main() / of the graph run
    week_index,                \* state["week_index"]
    thread_index,              \* state["thread_index"]
    threads_this_week,         \* main(): threads_this_week
    message_in_thread,         \* state["message_in_thread"]
    chat_history,              \* state["chat_history"]
    agent_responses,           \* state["agent_responses"]
    member_decision,           \* state["member_decision"]
    new_thread_required,       \* state["new_thread_required"]
    simulation_counters,       \* state["member_state"]["simulation_counters"], <<>> when the key is absent
    active_events,             \* state["active_events"]
    completed_events,          \* state["completed_events"]
    active_decision_chains,    \* state["active_decision_chains"]
    completed_decision_chains, \* state["completed_decision_chains"]
    current_decision_context,  \* state["current_decision_context"], <<>> is None
    persistent_state,          \* main(): the top-level keys of persistent_state that a thread rebinds
    checkpoints,               \* the checkpoint files: one record per week that has a file
    operator,                  \* the command line: --auto and --resume
    resume_week,               \* main(): resume_week, <<>> is None
    start_week,                \* main(): start_week
    steps,                     \* supersteps taken by the graph.stream call that is running
    next_uuid,                 \* source of uuid.uuid4(): the next unused suffix
    last                       \* the last operation that ran, its arguments and its return value

vars == <<pc, week_index, thread_index, threads_this_week, message_in_thread,
          chat_history, agent_responses, member_decision, new_thread_required,
          simulation_counters, active_events, completed_events,
          active_decision_chains, completed_decision_chains,
          current_decision_context, persistent_state, checkpoints, operator,
          resume_week, start_week, steps, next_uuid, last>>

graphVars == <<pc, week_index, thread_index, threads_this_week, message_in_thread,
               chat_history, agent_responses, member_decision, new_thread_required,
               simulation_counters, persistent_state, checkpoints, operator,
               resume_week, start_week, steps>>

mainVars == <<checkpoints, operator, resume_week, start_week>>

eventVars == <<active_events, completed_events>>

chainVars == <<active_decision_chains, completed_decision_chains, current_decision_context>>

----------------------------------------------------------------------------
(* Bounds of the model *)

MaxEvents == 3          \* events created in one run of SpecEvents
MaxChains == 2          \* chains created in one run of SpecTracker
MaxMessages == 4        \* messages appended to chat_history in one run of Spec
MaxResponses == 2       \* responses appended to agent_responses in one run of Spec
MaxWeeks == 2           \* main(): args.max_weeks
MaxEntries == 2         \* analyses + evidence + risks held by the chains in SpecTracker
RecursionLimit == 8     \* supersteps one graph.stream call may take (main.py passes 150)
MaxLogMessages == 16    \* messages in chat_history in one run of SpecLog

----------------------------------------------------------------------------
(* Python helpers *)

None == <<>>

\* dict.get(k, d) on a dict modelled as a function
Get(d, k, default) == IF k \in DOMAIN d THEN d[k] ELSE default

\* list.remove(x): removes the first element equal to x
RECURSIVE FirstIndex(_, _, _)
FirstIndex(s, x, i) ==
    IF i > Len(s) THEN 0
    ELSE IF s[i] = x THEN i
    ELSE FirstIndex(s, x, i + 1)

ListRemove(s, x) ==
    LET i == FirstIndex(s, x, 1)
    IN  IF i = 0 THEN s
        ELSE [j \in 1..(Len(s) - 1) |-> IF j < i THEN s[j] ELSE s[j + 1]]

\* index of the first element whose key field equals id (the for loops of utils.py), 0 if none
RECURSIVE FindById(_, _, _, _)
FindById(s, key, id, i) ==
    IF i > Len(s) THEN 0
    ELSE IF s[i][key] = id THEN i
    ELSE FindById(s, key, id, i + 1)

Range(s) == {s[i] : i \in 1..Len(s)}

----------------------------------------------------------------------------
(* state.py: the status vocabularies *)

EventStatuses == <<"proposed", "scheduled", "confirmed", "completed", "cancelled">>

TerminalEventStatuses == {"completed", "cancelled"}

\* position of a status in the documented lifecycle; completed and cancelled are both final
EventRank(s) ==
    CASE s = "proposed"  -> 1
      [] s = "scheduled" -> 2
      [] s = "confirmed" -> 3
      [] OTHER           -> 4

----------------------------------------------------------------------------
(* initialization.py: create_initial_conversational_state *)

InitialConversationalState ==
    /\ week_index = 1
    /\ thread_index = 1
    /\ message_in_thread = 0
    /\ chat_history = <<>>
    /\ agent_responses = <<>>
    /\ member_decision = "None"
    /\ new_thread_required = FALSE
    /\ active_events = <<>>
    /\ completed_events = <<>>
    /\ active_decision_chains = <<>>
    /\ completed_decision_chains = <<>>
    /\ current_decision_context = None
    /\ next_uuid = 1

\* main() is not running: no checkpoint file, no command line, no graph run
NoRun ==
    /\ checkpoints = {}
    /\ operator = [auto |-> FALSE, resume |-> None]
    /\ resume_week = None
    /\ start_week = 1
    /\ steps = 0

----------------------------------------------------------------------------
(* utils.py: the event registry *)

\* generate_event_id: W{week}T{thread}_{type}_{uuid suffix}
generate_event_id(week, thread, event_type, suffix) ==
    [week |-> week, thread |-> thread, type |-> event_type, suffix |-> suffix]

\* the EventObj built by create_event
NewEvent(event_type, created_by) ==
    [event_id   |-> generate_event_id(week_index, thread_index, event_type, next_uuid),
     Type       |-> event_type,
     priority   |-> "High",
     status     |-> "proposed",
     created_by |-> created_by]

\* the effect of create_event on active_events
CreateEventEffect(event_type, created_by) ==
    /\ active_events' = Append(active_events, NewEvent(event_type, created_by))
    /\ next_uuid' = next_uuid + 1

\* update_event_status, mutant: a terminal status is written but the record stays active
UpdateNoRelocate(i, new_status) ==
    /\ active_events' = [active_events EXCEPT ![i].status = new_status]
    /\ completed_events' = completed_events

\* update_event_status on the event found at index i of active_events
UpdateFound(i, new_status) ==
    LET event == [active_events[i] EXCEPT !.status = new_status]
    IN  IF new_status \in TerminalEventStatuses
        THEN /\ active_events' = ListRemove([active_events EXCEPT ![i] = event], event)
             /\ completed_events' = Append(completed_events, event)
        ELSE /\ active_events' = [active_events EXCEPT ![i] = event]
             /\ completed_events' = completed_events

create_event(event_type) ==
    /\ next_uuid <= MaxEvents
    /\ CreateEventEffect(event_type, "Ruby")
    /\ last' = [op |-> "create_event", ret |-> NewEvent(event_type, "Ruby").event_id]
    /\ UNCHANGED <<completed_events, graphVars, chainVars>>

\* update_event_status, mutant: an id that is not active is looked up in
\* completed_events as well
update_event_status_any_list(event_id, new_status) ==
    LET i == FindById(active_events, "event_id", event_id, 1)
        j == FindById(completed_events, "event_id", event_id, 1)
    IN  /\ IF i # 0
           THEN UpdateFound(i, new_status)
           ELSE IF j # 0
           THEN /\ completed_events' = [completed_events EXCEPT ![j].status = new_status]
                /\ active_events' = active_events
           ELSE UNCHANGED eventVars
        /\ last' = [op |-> "update_event_status", event_id |-> event_id,
                    new_status |-> new_status, ret |-> (i # 0 \/ j # 0)]
        /\ UNCHANGED <<next_uuid, graphVars, chainVars>>

update_event_status(event_id, new_status) ==
    LET i == FindById(active_events, "event_id", event_id, 1)
    IN  /\ IF i = 0
           THEN UNCHANGED eventVars
           ELSE UpdateFound(i, new_status)
        /\ last' = [op |-> "update_event_status", event_id |-> event_id,
                    new_status |-> new_status, ret |-> (i # 0)]
        /\ UNCHANGED <<next_uuid, graphVars, chainVars>>

EventTypes == {"Diagnostic", "Nutrition"}

\* every id create_event can have handed out so far, and one it never did
EventIdArgs ==
    {generate_event_id(1, 1, t, n) : t \in EventTypes, n \in 1..(MaxEvents + 1)}

StatusArgs == Range(EventStatuses) \cup {"on_hold"}

InitEvents ==
    /\ InitialConversationalState
    /\ pc = "events"
    /\ threads_this_week = 0
    /\ simulation_counters = None
    /\ persistent_state = None
    /\ NoRun
    /\ last = [op |-> "init"]

NextEvents ==
    \/ \E t \in EventTypes : create_event(t)
    \/ \E id \in EventIdArgs, s \in StatusArgs : update_event_status(id, s)

SpecEvents == InitEvents /\ [][NextEvents]_vars

----------------------------------------------------------------------------
(* Properties of the event registry *)

AllEvents == active_events \o completed_events

EventIds(s) == {s[i].event_id : i \in 1..Len(s)}

\* C8: every event ever created is in exactly one of active_events and
\* completed_events, exactly once; it is in completed_events exactly when
\* its status is completed or cancelled; and no event is ever deleted
\* (the number of stored events equals the number of events created).
C8_EventLifecycleExclusivity ==
    /\ Len(AllEvents) = next_uuid - 1
    /\ Cardinality(EventIds(AllEvents)) = next_uuid - 1
    /\ EventIds(active_events) \cap EventIds(completed_events) = {}
    /\ \A i \in 1..Len(active_events) :
           active_events[i].status \notin TerminalEventStatuses
    /\ \A i \in 1..Len(completed_events) :
           completed_events[i].status \in TerminalEventStatuses

\* C8 witness: one event has been relocated while another is still active
C8_Witness ==
    /\ Len(completed_events) >= 1
    /\ Len(active_events) >= 1
    /\ last.op = "update_event_status"
    /\ last.ret = TRUE
    /\ last.new_status \in TerminalEventStatuses

StatusOfEvent(s, id) == s[FindById(s, "event_id", id, 1)].status

\* C9 (as claimed): no update_event_status call moves an event's status to
\* an earlier position of proposed, scheduled, confirmed, completed|cancelled;
\* a call that would do so leaves the status as it was.
C9_StatusForwardOnly ==
    [][\A id \in EventIds(AllEvents) :
          (/\ id \in EventIds(AllEvents')
           /\ StatusOfEvent(AllEvents, id) \in Range(EventStatuses)
           /\ StatusOfEvent(AllEvents', id) \in Range(EventStatuses))
          => EventRank(StatusOfEvent(AllEvents', id)) >= EventRank(StatusOfEvent(AllEvents, id))]_vars

----------------------------------------------------------------------------
(* utils.py: the decision chain tracker *)

\* decision_id of create_decision_chain: DC_W{week}_{uuid suffix}
DecisionId(week, suffix) == [week |-> week, suffix |-> suffix]

\* the dict built by create_decision_chain
NewDecisionChain(triggering_event, member_id) ==
    [decision_id           |-> DecisionId(week_index, next_uuid),
     triggering_event      |-> triggering_event,
     member_id             |-> member_id,
     week_index            |-> week_index,
     priority              |-> "Medium",
     status                |-> "pending",
     agent_analyses        |-> <<>>,
     evidence_considered   |-> <<>>,
     risk_assessments      |-> <<>>,
     final_decision        |-> "",
     decision_rationale    |-> "",
     decision_maker        |-> "",
     decision_timestamp    |-> "",
     implementation_status |-> "not_started",
     outcome_summary       |-> "None",
     follow_up_required    |-> FALSE]

\* "if current_context and current_context.get('decision_id') == decision_id"
IsCurrentContext(decision_id) ==
    /\ current_decision_context # None
    /\ current_decision_context[1].decision_id = decision_id

\* the current decision context, mutant: the context is a copy made when the
\* chain was created and is not rebound when the chain is mutated
ContextAfterStale(context, chain) == context

\* the current decision context after a chain was mutated: rebound to the
\* chain when it has the chain's id
ContextAfter(context, chain) ==
    IF context # None /\ context[1].decision_id = chain.decision_id
    THEN <<chain>>
    ELSE context

\* a chain of active_decision_chains is replaced by its mutated value
MutateActiveChain(i, chain) ==
    /\ active_decision_chains' = [active_decision_chains EXCEPT ![i] = chain]
    /\ current_decision_context' = ContextAfter(current_decision_context, chain)
    /\ completed_decision_chains' = completed_decision_chains

\* the effect of create_decision_chain
CreateDecisionChainEffect(triggering_event, member_id) ==
    LET chain == NewDecisionChain(triggering_event, member_id)
    IN  /\ active_decision_chains' = Append(active_decision_chains, chain)
        /\ current_decision_context' = <<chain>>
        /\ completed_decision_chains' = completed_decision_chains
        /\ next_uuid' = next_uuid + 1

\* the analysis dict built by add_agent_analysis
NewAnalysis(agent_name, analysis_type, key_findings, confidence_level, recommendations, concerns) ==
    [agent_name       |-> agent_name,
     analysis_type    |-> analysis_type,
     key_findings     |-> key_findings,
     confidence_level |-> confidence_level,
     recommendations  |-> recommendations,
     concerns         |-> concerns]

\* mutant: the analysis is put in front of the chain's analyses
WithAnalysisInFront(chain, analysis) ==
    [chain EXCEPT !.agent_analyses = <<analysis>> \o @]

\* chain["agent_analyses"].append(analysis)
WithAnalysis(chain, analysis) ==
    [chain EXCEPT !.agent_analyses = Append(@, analysis)]

\* add_agent_analysis on the chain found at index i
AddAnalysisFound(i, analysis) ==
    MutateActiveChain(i, WithAnalysis(active_decision_chains[i], analysis))

\* add_evidence on the chain found at index i
AddEvidenceFound(i, evidence) ==
    MutateActiveChain(i, [active_decision_chains[i] EXCEPT
                             !.evidence_considered = Append(@, evidence)])

\* add_risk_assessment on the chain found at index i
AddRiskFound(i, risk) ==
    MutateActiveChain(i, [active_decision_chains[i] EXCEPT
                             !.risk_assessments = Append(@, risk)])

\* the assignments finalize_decision makes to the chain it found
Finalized(chain, final_decision, decision_rationale, decision_maker) ==
    [chain EXCEPT !.final_decision = final_decision,
                  !.decision_rationale = decision_rationale,
                  !.decision_maker = decision_maker,
                  !.decision_timestamp = "now",
                  !.status = "implemented"]

\* finalize_decision, mutant: the finalized chain is archived at once
FinalizeFoundArchives(i, final_decision, decision_rationale, decision_maker) ==
    LET chain == Finalized(active_decision_chains[i], final_decision,
                           decision_rationale, decision_maker)
    IN  /\ active_decision_chains' = ListRemove([active_decision_chains EXCEPT ![i] = chain], chain)
        /\ completed_decision_chains' = Append(completed_decision_chains, chain)
        /\ current_decision_context' = ContextAfter(current_decision_context, chain)

\* finalize_decision on the chain found at index i
FinalizeFound(i, final_decision, decision_rationale, decision_maker) ==
    MutateActiveChain(i, Finalized(active_decision_chains[i], final_decision,
                                   decision_rationale, decision_maker))

\* track_outcome, mutant: the outcome is recorded but the chain is not taken
\* out of the active list
TrackNoRemove(i, outcome_summary, follow_up_required) ==
    LET chain == [active_decision_chains[i] EXCEPT
                     !.outcome_summary = outcome_summary,
                     !.follow_up_required = follow_up_required,
                     !.implementation_status = "completed",
                     !.status = "completed"]
    IN  /\ active_decision_chains' = [active_decision_chains EXCEPT ![i] = chain]
        /\ completed_decision_chains' = Append(completed_decision_chains, chain)
        /\ current_decision_context' =
               IF IsCurrentContext(chain.decision_id) THEN None ELSE current_decision_context

\* track_outcome on the chain found at index i
TrackFound(i, outcome_summary, follow_up_required) ==
    LET chain == [active_decision_chains[i] EXCEPT
                     !.outcome_summary = outcome_summary,
                     !.follow_up_required = follow_up_required,
                     !.implementation_status = "completed",
                     !.status = "completed"]
    IN  /\ active_decision_chains' =
               ListRemove([active_decision_chains EXCEPT ![i] = chain], chain)
        /\ completed_decision_chains' = Append(completed_decision_chains, chain)
        /\ current_decision_context' =
               IF IsCurrentContext(chain.decision_id) THEN None ELSE current_decision_context

FindChain(decision_id) == FindById(active_decision_chains, "decision_id", decision_id, 1)

RECURSIVE SumEntries(_, _)
SumEntries(chains, i) ==
    IF i > Len(chains) THEN 0
    ELSE Len(chains[i].agent_analyses) + Len(chains[i].evidence_considered)
         + Len(chains[i].risk_assessments) + SumEntries(chains, i + 1)

\* the model stops adding list entries once the chains hold MaxEntries of them
RoomForEntry ==
    SumEntries(active_decision_chains \o completed_decision_chains, 1) < MaxEntries

create_decision_chain(triggering_event, member_id) ==
    /\ next_uuid <= MaxChains
    /\ CreateDecisionChainEffect(triggering_event, member_id)
    /\ last' = [op |-> "create_decision_chain",
                ret |-> NewDecisionChain(triggering_event, member_id).decision_id]
    /\ UNCHANGED <<graphVars, eventVars>>

add_agent_analysis(decision_id, agent_name, analysis_type) ==
    LET i == FindChain(decision_id)
    IN  /\ RoomForEntry
        /\ IF i = 0
           THEN UNCHANGED chainVars
           ELSE AddAnalysisFound(i, NewAnalysis(agent_name, analysis_type,
                                                <<"finding">>, 8, <<"x">>, <<>>))
        /\ last' = [op |-> "add_agent_analysis", decision_id |-> decision_id,
                    agent_name |-> agent_name, ret |-> (i # 0)]
        /\ UNCHANGED <<next_uuid, graphVars, eventVars>>

add_evidence(decision_id, evidence_type) ==
    LET i == FindChain(decision_id)
    IN  /\ RoomForEntry
        /\ IF i = 0
           THEN UNCHANGED chainVars
           ELSE AddEvidenceFound(i, [evidence_type |-> evidence_type, source |-> "Blood Panel"])
        /\ last' = [op |-> "add_evidence", decision_id |-> decision_id, ret |-> (i # 0)]
        /\ UNCHANGED <<next_uuid, graphVars, eventVars>>

add_risk_assessment(decision_id, risk_factor) ==
    LET i == FindChain(decision_id)
    IN  /\ RoomForEntry
        /\ IF i = 0
           THEN UNCHANGED chainVars
           ELSE AddRiskFound(i, [risk_factor |-> risk_factor, risk_level |-> "Low"])
        /\ last' = [op |-> "add_risk_assessment", decision_id |-> decision_id, ret |-> (i # 0)]
        /\ UNCHANGED <<next_uuid, graphVars, eventVars>>

\* finalize_decision, mutant: a chain that is no longer active is finalized
\* where it is, in completed_decision_chains
finalize_decision_completed(decision_id, final_decision, decision_rationale, decision_maker) ==
    LET i == FindChain(decision_id)
        j == FindById(completed_decision_chains, "decision_id", decision_id, 1)
    IN  /\ IF i # 0
           THEN FinalizeFound(i, final_decision, decision_rationale, decision_maker)
           ELSE IF j # 0
           THEN /\ completed_decision_chains' =
                       [completed_decision_chains EXCEPT
                           ![j] = Finalized(@, final_decision, decision_rationale, decision_maker)]
                /\ UNCHANGED <<active_decision_chains, current_decision_context>>
           ELSE UNCHANGED chainVars
        /\ last' = [op |-> "finalize_decision", decision_id |-> decision_id,
                    ret |-> (i # 0 \/ j # 0)]
        /\ UNCHANGED <<next_uuid, graphVars, eventVars>>

finalize_decision(decision_id, final_decision, decision_rationale, decision_maker) ==
    LET i == FindChain(decision_id)
    IN  /\ IF i = 0
           THEN UNCHANGED chainVars
           ELSE FinalizeFound(i, final_decision, decision_rationale, decision_maker)
        /\ last' = [op |-> "finalize_decision", decision_id |-> decision_id, ret |-> (i # 0)]
        /\ UNCHANGED <<next_uuid, graphVars, eventVars>>

track_outcome(decision_id, outcome_summary) ==
    LET i == FindChain(decision_id)
    IN  /\ IF i = 0
           THEN UNCHANGED chainVars
           ELSE TrackFound(i, outcome_summary, FALSE)
        /\ last' = [op |-> "track_outcome", decision_id |-> decision_id, ret |-> (i # 0)]
        /\ UNCHANGED <<next_uuid, graphVars, eventVars>>

\* every id create_decision_chain can have handed out, and one it never did
DecisionIdArgs == {DecisionId(1, n) : n \in 1..(MaxChains + 1)}

AgentNameArgs == {"DrWarren", "Carla"}

InitTracker ==
    /\ InitialConversationalState
    /\ pc = "tracker"
    /\ threads_this_week = 0
    /\ simulation_counters = None
    /\ persistent_state = None
    /\ NoRun
    /\ last = [op |-> "init"]

NextTracker ==
    \/ create_decision_chain("DrWarren made recommendations/decisions", "Rohan Patel")
    \/ \E id \in DecisionIdArgs, a \in AgentNameArgs :
           add_agent_analysis(id, a, "general_analysis")
    \/ \E id \in DecisionIdArgs : add_evidence(id, "test_results")
    \/ \E id \in DecisionIdArgs : add_risk_assessment(id, "Risk of diabetes progression")
    \/ \E id \in DecisionIdArgs : finalize_decision(id, "Approved", "Evidence", "DrWarren")
    \/ \E id \in DecisionIdArgs : track_outcome(id, "Improved")

SpecTracker == InitTracker /\ [][NextTracker]_vars

----------------------------------------------------------------------------
(* Properties of the decision chain tracker *)

ChainIds(s) == {s[i].decision_id : i \in 1..Len(s)}

AnalysesBy(chain, agent_name) ==
    {k \in 1..Len(chain.agent_analyses) : chain.agent_analyses[k].agent_name = agent_name}

\* C6 (as claimed): an add_agent_analysis call for a (decision_id, agent_name)
\* that already has an analysis in the active chain leaves the length of the
\* chain's agent_analyses unchanged.
C6_AnalysisIdempotent ==
    [][\A i \in 1..Len(active_decision_chains) :
          (/\ last'.op = "add_agent_analysis"
           /\ last'.decision_id = active_decision_chains[i].decision_id
           /\ AnalysesBy(active_decision_chains[i], last'.agent_name) # {})
          => Len(active_decision_chains'[i].agent_analyses)
                 = Len(active_decision_chains[i].agent_analyses)]_vars

CountById(s, decision_id) ==
    Cardinality({i \in 1..Len(s) : s[i].decision_id = decision_id})

\* C7: a track_outcome call that succeeds for a decision_id leaves the id
\* absent from active_decision_chains and present exactly once, with status
\* completed, in completed_decision_chains; current_decision_context is None
\* afterwards if it referenced that id and is unchanged otherwise.
C7_ChainRelocation ==
    [][(last'.op = "track_outcome" /\ last'.ret = TRUE) =>
          /\ CountById(active_decision_chains', last'.decision_id) = 0
          /\ CountById(completed_decision_chains', last'.decision_id) = 1
          /\ \A i \in 1..Len(completed_decision_chains') :
                 completed_decision_chains'[i].decision_id = last'.decision_id
                 => completed_decision_chains'[i].status = "completed"
          /\ IF IsCurrentContext(last'.decision_id)
             THEN current_decision_context' = None
             ELSE current_decision_context' = current_decision_context]_vars

\* C7 witness: track_outcome has succeeded for a chain that was not the
\* current context while another chain, the current context, stays active
C7_Witness ==
    /\ last.op = "track_outcome"
    /\ last.ret = TRUE
    /\ Len(completed_decision_chains) >= 1
    /\ Len(active_decision_chains) >= 1
    /\ current_decision_context # None
    /\ current_decision_context[1].decision_id \in ChainIds(active_decision_chains)

----------------------------------------------------------------------------
(* utils.py: the message log *)

\* hour_offsets of calculate_conversation_timestamp
hour_offsets == <<10, 14, 16, 11, 15>>

MinutesPerDay == 1440

\* calculate_conversation_timestamp, in minutes since Monday 00:00 of week 1;
\* hour_variation is random.uniform(-1, 1) hours given in minutes and
\* minute_variation is 3 + random.uniform(-1, 2)
calculate_conversation_timestamp(week, thread, in_thread, hour_variation, minute_variation) ==
    LET day_offset == thread - 1
        thread_day == ((week - 1) * 7 + day_offset) * MinutesPerDay
        base_hour  == IF thread <= 5 THEN hour_offsets[thread] ELSE 10
        thread_start == thread_day + base_hour * 60 + hour_variation
    IN  thread_start + in_thread * minute_variation

\* random.uniform(-1, 1) hours, the two ends of the range
HourVariations == {-60, 60}

\* 3 + random.uniform(-1, 2) minutes, the two ends of the range
MinuteVariations == {2, 5}

\* (delta_hours, delta_minutes) = (random.randint(0, 1), random.randint(2, 30)):
\* the smallest and the largest delta append_message can draw
Deltas == {<<0, 2>>, <<1, 30>>}

\* append_message, mutant: the minutes are drawn by random.randint(0, 30)
NextTimestampsFromZero ==
    IF chat_history # <<>> /\ message_in_thread > 0
    THEN {chat_history[Len(chat_history)].timestamp + d[1] * 60 + d[2] :
              d \in {<<0, 0>>, <<1, 30>>}}
    ELSE {calculate_conversation_timestamp(week_index, thread_index, message_in_thread, hv, mv) :
              hv \in HourVariations, mv \in MinuteVariations}

\* the timestamps append_message can give the next message
NextTimestamps ==
    IF chat_history # <<>> /\ message_in_thread > 0
    THEN {chat_history[Len(chat_history)].timestamp + d[1] * 60 + d[2] : d \in Deltas}
    ELSE {calculate_conversation_timestamp(week_index, thread_index, message_in_thread, hv, mv) :
              hv \in HourVariations, mv \in MinuteVariations}

\* the ChatMsg built by append_message
ChatMsg(role, agent, timestamp) ==
    [role |-> role, agent |-> agent, timestamp |-> timestamp]

\* append_message, mutant: the thread's message counter is left alone
AppendMessageNoCount(role, agent, timestamp) ==
    /\ chat_history' = Append(chat_history, ChatMsg(role, agent, timestamp))
    /\ message_in_thread' = message_in_thread

\* append_message with the timestamp it drew
AppendMessage(role, agent, timestamp) ==
    /\ chat_history' = Append(chat_history, ChatMsg(role, agent, timestamp))
    /\ message_in_thread' = message_in_thread + 1

\* append_agent_response
AppendAgentResponse(payload) ==
    agent_responses' = Append(agent_responses, payload)

RoomForMessage == Len(chat_history) < MaxMessages

RoomForResponse == Len(agent_responses) < MaxResponses

----------------------------------------------------------------------------
(* main.py: the week and thread loops *)

\* random.randint(2, 4)
ThreadsPerWeek == 2..4

\* the top-level keys a thread rebinds in its copy of persistent_state
ThreadLocalKeys ==
    [member_decision          |-> member_decision,
     new_thread_required      |-> new_thread_required,
     current_decision_context |-> current_decision_context]

\* the thread loop, mutant: the exception of a thread is not caught and ends main()
ThreadFailsAbortsRun ==
    /\ pc' = "crashed"
    /\ member_decision' = persistent_state.member_decision
    /\ new_thread_required' = persistent_state.new_thread_required
    /\ current_decision_context' = persistent_state.current_decision_context
    /\ message_in_thread' = 0
    /\ persistent_state' = persistent_state
    /\ steps' = 0

\* the except branch of the thread loop: thread_state is dropped, so the keys
\* the thread rebound keep the values persistent_state has; objects mutated in
\* place (lists, member_state) keep the thread's changes
ThreadFails ==
    /\ pc' = "thread_done"
    /\ member_decision' = persistent_state.member_decision
    /\ new_thread_required' = persistent_state.new_thread_required
    /\ current_decision_context' = persistent_state.current_decision_context
    /\ message_in_thread' = 0
    /\ persistent_state' = persistent_state
    /\ steps' = 0

\* the nodes of the compiled graph
GraphNodes ==
    {"Member", "Decider", "AgentResponseCollector", "EndConversation",
     "RubyNode", "DrWarrenNode", "AdvikNode", "CarlaNode", "RachelNode", "NeelNode",
     "TestPanelNode"}

\* graph.stream may take one more superstep
StepAllowed == steps < RecursionLimit

\* graph.stream raises GraphRecursionError when the step budget is used up
\* before the graph reached END; main() catches it like any other exception
graph_recursion_error ==
    /\ pc \in GraphNodes
    /\ ~StepAllowed
    /\ ThreadFails
    /\ last' = [op |-> "graph.stream", raised |-> "GraphRecursionError"]
    /\ UNCHANGED <<mainVars, week_index, thread_index, threads_this_week, chat_history,
                   agent_responses, simulation_counters, next_uuid, eventVars,
                   active_decision_chains, completed_decision_chains>>

\* the state dict json.dump writes into the checkpoint file
StateSnapshot ==
    [week_index                |-> week_index,
     thread_index              |-> thread_index,
     message_in_thread         |-> message_in_thread,
     chat_history              |-> chat_history,
     agent_responses           |-> agent_responses,
     member_decision           |-> member_decision,
     new_thread_required       |-> new_thread_required,
     simulation_counters       |-> simulation_counters,
     active_events             |-> active_events,
     completed_events          |-> completed_events,
     active_decision_chains    |-> active_decision_chains,
     completed_decision_chains |-> completed_decision_chains,
     current_decision_context  |-> current_decision_context]

\* the head of "for week in range(start_week, max_weeks + 1)" down to the
\* start of the week's first thread
StartWeek ==
    /\ pc \in {"main", "week_done"}
    /\ LET week == IF pc = "main" THEN start_week ELSE week_index + 1
       IN  /\ week <= MaxWeeks
           /\ week_index' = week
    /\ \E k \in ThreadsPerWeek : threads_this_week' = k
    /\ thread_index' = 1
    /\ message_in_thread' = 0
    /\ pc' = "Member"
    /\ steps' = 0
    /\ last' = [op |-> "start_week"]
    /\ UNCHANGED <<mainVars, chat_history, agent_responses, member_decision, new_thread_required,
                   simulation_counters, persistent_state, next_uuid, eventVars, chainVars>>

\* the next iteration of "for thread in range(1, threads_this_week + 1)"
NextThread ==
    /\ pc = "thread_done"
    /\ thread_index < threads_this_week
    /\ thread_index' = thread_index + 1
    /\ message_in_thread' = 0
    /\ pc' = "Member"
    /\ steps' = 0
    /\ last' = [op |-> "next_thread"]
    /\ UNCHANGED <<mainVars, week_index, threads_this_week, chat_history, agent_responses,
                   member_decision, new_thread_required, simulation_counters,
                   persistent_state, next_uuid, eventVars, chainVars>>

\* save_checkpoint after the last thread of the week
SaveCheckpoint ==
    /\ pc = "thread_done"
    /\ thread_index = threads_this_week
    /\ pc' = "week_done"
    /\ checkpoints' = {c \in checkpoints : c.week # week_index}
                          \cup {[week |-> week_index, loadable |-> TRUE, state |-> StateSnapshot]}
    /\ last' = [op |-> "save_checkpoint", week |-> week_index]
    /\ UNCHANGED <<operator, resume_week, start_week, steps, week_index, thread_index, threads_this_week, message_in_thread,
                   chat_history, agent_responses, member_decision, new_thread_required,
                   simulation_counters, persistent_state, next_uuid, eventVars, chainVars>>

\* the week loop is exhausted
FinishRun ==
    /\ pc \in {"main", "week_done"}
    /\ (IF pc = "main" THEN start_week ELSE week_index + 1) > MaxWeeks
    /\ pc' = "done"
    /\ last' = [op |-> "finish_run"]
    /\ UNCHANGED <<mainVars, steps, week_index, thread_index, threads_this_week, message_in_thread,
                   chat_history, agent_responses, member_decision, new_thread_required,
                   simulation_counters, persistent_state, next_uuid, eventVars, chainVars>>

----------------------------------------------------------------------------
(* agents/member.py: member_node *)

\* what the member collaborator may return: text that is no JSON, or a JSON
\* object with some of the keys message, decision, is_travel_related
MemberContents ==
    {[json |-> FALSE],
     [json |-> TRUE, obj |-> [message |-> "hello"]],
     [json |-> TRUE, obj |-> [message |-> "hello", decision |-> "CONTINUE_CONVERSATION"]],
     [json |-> TRUE, obj |-> [message |-> "thanks", decision |-> "END_TURN"]],
     [json |-> TRUE, obj |-> [message |-> "trip", decision |-> "CONTINUE_CONVERSATION",
                               is_travel_related |-> TRUE]]}

\* mutant: a missing or unreadable decision lets the conversation go on
MemberDecisionOfContinue(content) ==
    IF content.json THEN Get(content.obj, "decision", "CONTINUE_CONVERSATION")
    ELSE "CONTINUE_CONVERSATION"

\* the decision member_node extracts from the collaborator's output
MemberDecisionOf(content) ==
    IF content.json THEN Get(content.obj, "decision", "END_TURN") ELSE "END_TURN"

MemberTravelOf(content) ==
    IF content.json THEN Get(content.obj, "is_travel_related", FALSE) ELSE FALSE

\* member_node, mutant: new_thread_required is read and not reset
member_node_keeps_flag ==
    /\ pc = "Member"
    /\ StepAllowed
    /\ steps' = steps + 1
    /\ RoomForMessage
    /\ \E content \in MemberContents, timestamp \in NextTimestamps :
          /\ new_thread_required' = new_thread_required
          /\ simulation_counters' =
                 IF MemberTravelOf(content) /\ simulation_counters # None
                 THEN <<[simulation_counters[1] EXCEPT !.weeks_since_last_trip = 0]>>
                 ELSE simulation_counters
          /\ AppendMessage("member", "member", timestamp)
          /\ member_decision' = MemberDecisionOf(content)
          /\ last' = [op |-> "member_node", json |-> content.json, content |-> content]
    /\ pc' = "Decider"
    /\ UNCHANGED <<mainVars, week_index, thread_index, threads_this_week, agent_responses,
                   persistent_state, next_uuid, eventVars, chainVars>>

member_node ==
    /\ pc = "Member"
    /\ StepAllowed
    /\ steps' = steps + 1
    /\ RoomForMessage
    /\ \E content \in MemberContents, timestamp \in NextTimestamps :
          /\ new_thread_required' =
                 IF chat_history # <<>> /\ new_thread_required THEN FALSE ELSE new_thread_required
          /\ simulation_counters' =
                 IF MemberTravelOf(content) /\ simulation_counters # None
                 THEN <<[simulation_counters[1] EXCEPT !.weeks_since_last_trip = 0]>>
                 ELSE simulation_counters
          /\ AppendMessage("member", "member", timestamp)
          /\ member_decision' = MemberDecisionOf(content)
          /\ last' = [op |-> "member_node", json |-> content.json, content |-> content]
    /\ pc' = "Decider"
    /\ UNCHANGED <<mainVars, week_index, thread_index, threads_this_week, agent_responses,
                   persistent_state, next_uuid, eventVars, chainVars>>

----------------------------------------------------------------------------
(* agents/: the specialist nodes *)

AGENT_KEYS == <<"Ruby", "DrWarren", "Advik", "Carla", "Rachel", "Neel", "TestPanel">>

AGENT_NODE_MAP ==
    [Ruby |-> "RubyNode", DrWarren |-> "DrWarrenNode", Advik |-> "AdvikNode",
     Carla |-> "CarlaNode", Rachel |-> "RachelNode", Neel |-> "NeelNode",
     TestPanel |-> "TestPanelNode"]

\* the role each node passes to append_message
RoleOf ==
    [Ruby |-> "ruby", DrWarren |-> "dr_warren", Advik |-> "advik",
     Carla |-> "carla", Rachel |-> "rachel", Neel |-> "neel",
     TestPanel |-> "test_panel"]

SpecialistRoles == {RoleOf[AGENT_KEYS[i]] : i \in 1..Len(AGENT_KEYS)}

\* what a specialist collaborator may return: text that is no JSON, or a
\* JSON object with some of the AgentOutput keys
SpecialistContents ==
    {[json |-> FALSE],
     [json |-> TRUE, obj |-> [message |-> "ask Carla", expert_needed |-> "Carla"]],
     [json |-> TRUE, obj |-> [message |-> "plan", recommendations |-> <<"x">>, tests |-> <<"y">>]]}

\* "if k not in payload: payload[k] = default" for every key of defaults
WithDefaults(obj, defaults) ==
    [k \in (DOMAIN obj) \cup (DOMAIN defaults) |->
        IF k \in DOMAIN obj THEN obj[k] ELSE defaults[k]]

\* the payload of drwarren_node, advik_node, rachel_node and neel_node
PayloadOf(key, content) ==
    LET fallback == [agent |-> key, message |-> "content", proposed_event |-> "None"]
    IN  IF content.json THEN WithDefaults(content.obj, fallback) ELSE fallback

\* the payload of ruby_node
RubyPayloadOf(content) ==
    LET fallback == [agent |-> "Ruby", message |-> "content", proposed_event |-> "None",
                     needs_expert |-> "false", expert_needed |-> "None", routing_reason |-> ""]
    IN  IF content.json THEN WithDefaults(content.obj, fallback) ELSE fallback

\* the common tail of the specialist nodes: one response, one message
SpecialistTurn(key, payload) ==
    /\ StepAllowed
    /\ steps' = steps + 1
    /\ RoomForMessage
    /\ RoomForResponse
    /\ AppendAgentResponse(payload)
    /\ \E timestamp \in NextTimestamps : AppendMessage(RoleOf[key], key, timestamp)
    /\ pc' = "AgentResponseCollector"
    /\ last' = [op |-> AGENT_NODE_MAP[key]]
    /\ UNCHANGED <<mainVars, week_index, thread_index, threads_this_week, member_decision,
                   new_thread_required, simulation_counters, persistent_state,
                   next_uuid, eventVars, chainVars>>

ruby_node ==
    /\ pc = "RubyNode"
    /\ \E content \in SpecialistContents : SpecialistTurn("Ruby", RubyPayloadOf(content))

\* drwarren_node, advik_node, rachel_node and neel_node: the same code up to
\* the agent's name
JsonSpecialists == {"DrWarren", "Advik", "Rachel", "Neel"}

specialist_node ==
    \E key \in JsonSpecialists :
       /\ pc = AGENT_NODE_MAP[key]
       /\ \E content \in SpecialistContents : SpecialistTurn(key, PayloadOf(key, content))

\* agents/carla.py is imported by agents/__init__.py; the node produces one
\* AgentResponse and one message like the other specialists
carla_node ==
    /\ pc = "CarlaNode"
    /\ \E content \in SpecialistContents : SpecialistTurn("Carla", PayloadOf("Carla", content))

\* the payload test_panel_node builds
TestPanelPayload ==
    [agent |-> "TestPanel", message |-> "-", needs_expert |-> "false",
     expert_needed |-> "None", routing_reason |-> "results generated",
     proposed_event |-> "Comprehensive Assessment"]

\* test_panel_node: the response is appended, then the call of append_message
\* evaluates the unbound name "message" and the NameError ends the thread
test_panel_node ==
    /\ pc = "TestPanelNode"
    /\ StepAllowed
    /\ RoomForResponse
    /\ AppendAgentResponse(TestPanelPayload)
    /\ ThreadFails
    /\ last' = [op |-> "TestPanelNode", raised |-> "NameError"]
    /\ UNCHANGED <<mainVars, week_index, thread_index, threads_this_week, chat_history,
                   simulation_counters, next_uuid, eventVars,
                   active_decision_chains, completed_decision_chains>>

\* agent_response_collector passes the state through
agent_response_collector ==
    /\ pc = "AgentResponseCollector"
    /\ StepAllowed
    /\ steps' = steps + 1
    /\ pc' = "Decider"
    /\ last' = [op |-> "AgentResponseCollector"]
    /\ UNCHANGED <<mainVars, week_index, thread_index, threads_this_week, message_in_thread,
                   chat_history, agent_responses, member_decision, new_thread_required,
                   simulation_counters, persistent_state, next_uuid, eventVars, chainVars>>

----------------------------------------------------------------------------
(* orchestrator.py: the decider *)

\* "return weeks_since_diagnostic >= 12"
DiagnosticWeeks == 12

\* should_schedule_diagnostic, mutant: due only after more than 12 weeks
should_schedule_diagnostic_late ==
    /\ simulation_counters # None
    /\ simulation_counters[1].weeks_since_last_diagnostic > DiagnosticWeeks

should_schedule_diagnostic ==
    /\ simulation_counters # None
    /\ simulation_counters[1].weeks_since_last_diagnostic >= DiagnosticWeeks

\* create_diagnostic_event: one Diagnostic event, the counter back to 0
create_diagnostic_event ==
    /\ CreateEventEffect("Diagnostic", "System")
    /\ simulation_counters' =
           IF simulation_counters # None
           THEN <<[simulation_counters[1] EXCEPT !.weeks_since_last_diagnostic = 0]>>
           ELSE simulation_counters

\* bool(last_response.get(k)) for a list valued key
HasList(response, k) == Get(response, k, <<>>) # <<>>

\* bool(last_response.get(k)) for a string valued key
HasText(response, k) == Get(response, k, "") # ""

BoolToInt(b) == IF b THEN 1 ELSE 0

\* detect_decision_point on the last agent response; confidence is in tenths
DecisionIndicators(response) ==
    BoolToInt(HasList(response, "recommendations"))
    + BoolToInt(HasList(response, "medications"))
    + BoolToInt(HasList(response, "tests"))
    + BoolToInt(HasText(response, "analysis") /\ Get(response, "confidence", 0) > 5)

\* detect_decision_point, mutant: one indicator is enough
detect_decision_point_single ==
    /\ agent_responses # <<>>
    /\ DecisionIndicators(agent_responses[Len(agent_responses)]) >= 1

detect_decision_point ==
    /\ agent_responses # <<>>
    /\ DecisionIndicators(agent_responses[Len(agent_responses)]) >= 2

\* the analysis type decide_next_node derives from the agent name
AnalysisTypeOf(agent_name) ==
    CASE agent_name = "DrWarren" -> "clinical_analysis"
      [] agent_name = "Carla"    -> "nutritional_analysis"
      [] agent_name = "Rachel"   -> "exercise_analysis"
      [] agent_name = "Advik"    -> "data_analysis"
      [] OTHER                   -> "general_analysis"

\* the analysis decide_next_node passes to add_agent_analysis
AnalysisOfResponse(response) ==
    NewAnalysis(Get(response, "agent", "Unknown"),
                AnalysisTypeOf(Get(response, "agent", "Unknown")),
                IF HasText(response, "analysis") THEN <<response.analysis>> ELSE <<>>,
                Get(response, "confidence", 7),
                Get(response, "recommendations", <<>>),
                Get(response, "medications", <<>>) \o Get(response, "tests", <<>>))

\* decide_next_node, lines 121-172, mutant: the list read before
\* create_decision_chain is not the list the new chain was appended to, so no
\* analysis is added in the invocation that creates the chain
TrackedChainsNoAlias ==
    IF ~detect_decision_point
    THEN [chains |-> active_decision_chains, context |-> current_decision_context, created |-> FALSE]
    ELSE
      LET response == agent_responses[Len(agent_responses)]
          agent_name == Get(response, "agent", "Unknown")
          created == active_decision_chains = <<>>
          new_chain == NewDecisionChain("agent made recommendations/decisions", "member")
      IN  IF created
          THEN [chains |-> <<new_chain>>, context |-> <<new_chain>>, created |-> TRUE]
          ELSE
            LET current_chain == active_decision_chains[1]
                agent_already_added ==
                    \E k \in 1..Len(current_chain.agent_analyses) :
                        current_chain.agent_analyses[k].agent_name = agent_name
                chain2 == WithAnalysis(current_chain, AnalysisOfResponse(response))
            IN  IF agent_already_added
                THEN [chains |-> active_decision_chains,
                      context |-> current_decision_context, created |-> FALSE]
                ELSE [chains |-> [active_decision_chains EXCEPT ![1] = chain2],
                      context |-> ContextAfter(current_decision_context, chain2),
                      created |-> FALSE]

\* decide_next_node, lines 121-172: the decision chains and the current
\* decision context after the decision tracking block
TrackedChains ==
    IF ~detect_decision_point
    THEN [chains |-> active_decision_chains, context |-> current_decision_context, created |-> FALSE]
    ELSE
      LET response == agent_responses[Len(agent_responses)]
          agent_name == Get(response, "agent", "Unknown")
          created == active_decision_chains = <<>>
          new_chain == NewDecisionChain("agent made recommendations/decisions", "member")
          chains1 == IF created THEN <<new_chain>> ELSE active_decision_chains
          context1 == IF created THEN <<new_chain>> ELSE current_decision_context
          current_chain == chains1[1]
          agent_already_added ==
              \E k \in 1..Len(current_chain.agent_analyses) :
                  current_chain.agent_analyses[k].agent_name = agent_name
          i == FindById(chains1, "decision_id", current_chain.decision_id, 1)
          chain2 == WithAnalysis(chains1[i], AnalysisOfResponse(response))
      IN  IF agent_already_added
          THEN [chains |-> chains1, context |-> context1, created |-> created]
          ELSE [chains |-> [chains1 EXCEPT ![i] = chain2],
                context |-> ContextAfter(context1, chain2),
                created |-> created]

\* str.strip() and str.replace('"', '') on the collaborator's answer, which is
\* a sequence of tokens: a run of whitespace " ", a quote, or a word
RECURSIVE LStrip(_)
LStrip(s) == IF s # <<>> /\ Head(s) = " " THEN LStrip(Tail(s)) ELSE s

RECURSIVE RStrip(_)
RStrip(s) == IF s # <<>> /\ s[Len(s)] = " " THEN RStrip(SubSeq(s, 1, Len(s) - 1)) ELSE s

NotQuote(t) == t # "\""

NormalizeAnswer(content) == SelectSeq(RStrip(LStrip(content)), NotQuote)

\* what the routing collaborator may do: raise, or answer with some text
RouterAnswers ==
    {[raises |-> TRUE,  content |-> <<>>],
     [raises |-> FALSE, content |-> <<"END">>],
     [raises |-> FALSE, content |-> <<"Member">>],
     [raises |-> FALSE, content |-> <<"Ruby">>],
     [raises |-> FALSE, content |-> <<"\"", "DrWarren", "\"">>],
     [raises |-> FALSE, content |-> <<" ", "Carla", " ">>],
     [raises |-> FALSE, content |-> <<"TestPanel">>],
     [raises |-> FALSE, content |-> <<"\"", " ", "Ruby", "\"">>],
     [raises |-> FALSE, content |-> <<"CarlaNode">>]}

\* finalize_decision has five required parameters (utils.py) and the decider
\* passes four (orchestrator.py:226): the call raises TypeError
FinalizeParameters == 5

DeciderFinalizeArguments == 4

\* the try block of decide_next_node, mutant: an unrecognized answer is
\* returned as it is
ValidateDecisionPassThrough(answer, chains) ==
    LET decision == NormalizeAnswer(answer.content)
    IN  IF answer.raises THEN "Member"
        ELSE IF decision = <<"END">>
        THEN IF chains # <<>> /\ DeciderFinalizeArguments # FinalizeParameters
             THEN "Member"
             ELSE "END"
        ELSE IF decision = <<"Member">> THEN "Member"
        ELSE IF Len(decision) = 1 /\ decision[1] \in Range(AGENT_KEYS)
        THEN AGENT_NODE_MAP[decision[1]]
        ELSE IF decision # <<>> THEN decision[1] ELSE ""

\* the try block of decide_next_node: the value returned for the
\* collaborator's answer when chains are the active decision chains
ValidateDecision(answer, chains) ==
    LET decision == NormalizeAnswer(answer.content)
    IN  IF answer.raises THEN "Member"
        ELSE IF decision = <<"END">>
        THEN IF chains # <<>> /\ DeciderFinalizeArguments # FinalizeParameters
             THEN "Member"
             ELSE "END"
        ELSE IF decision = <<"Member">> THEN "Member"
        ELSE IF Len(decision) = 1 /\ decision[1] \in Range(AGENT_KEYS)
        THEN AGENT_NODE_MAP[decision[1]]
        ELSE "Member"

\* decide_next_node, mutant: the cadence check comes before the end signal
DeciderBranchCadenceFirst ==
    IF should_schedule_diagnostic THEN "diagnostic"
    ELSE IF member_decision = "END_TURN" THEN "end"
    ELSE "route"

\* the order of the checks of decide_next_node
DeciderBranch ==
    IF member_decision = "END_TURN" THEN "end"
    ELSE IF should_schedule_diagnostic THEN "diagnostic"
    ELSE "route"

\* decider_edges of build_graph
DeciderEdge(result) ==
    CASE result = "END"    -> "EndConversation"
      [] result = "Member" -> "Member"
      [] OTHER             -> result

RouterResults == {"END", "Member"} \cup {AGENT_NODE_MAP[AGENT_KEYS[i]] : i \in 1..Len(AGENT_KEYS)}

\* decide_next_node, mutant: a decision-worthy response opens a chain even
\* when a chain is active
decide_next_node_new_chain_each_time ==
    /\ pc = "Decider"
    /\ StepAllowed
    /\ steps' = steps + 1
    /\ CASE DeciderBranch = "end" ->
              /\ last' = [op |-> "decide_next_node", ret |-> "END", consulted |-> FALSE]
              /\ pc' = DeciderEdge("END")
              /\ UNCHANGED <<simulation_counters, next_uuid, eventVars, chainVars>>
         [] DeciderBranch = "diagnostic" ->
              /\ create_diagnostic_event
              /\ last' = [op |-> "decide_next_node", ret |-> "TestPanelNode", consulted |-> FALSE]
              /\ pc' = DeciderEdge("TestPanelNode")
              /\ UNCHANGED <<completed_events, chainVars>>
         [] OTHER ->
              \E answer \in RouterAnswers :
                 LET tracked == TrackedChains
                     result == ValidateDecision(answer, tracked.chains)
                     fresh == NewDecisionChain("agent made recommendations/decisions", "member")
                     again == detect_decision_point /\ ~tracked.created
                 IN  /\ active_decision_chains' =
                            IF again THEN Append(tracked.chains, fresh) ELSE tracked.chains
                     /\ current_decision_context' = IF again THEN <<fresh>> ELSE tracked.context
                     /\ next_uuid' = IF detect_decision_point THEN next_uuid + 1 ELSE next_uuid
                     /\ last' = [op |-> "decide_next_node", ret |-> result, consulted |-> TRUE,
                                 raises |-> answer.raises,
                                 decision |-> NormalizeAnswer(answer.content)]
                     /\ pc' = DeciderEdge(result)
                     /\ UNCHANGED <<simulation_counters, eventVars, completed_decision_chains>>
    /\ UNCHANGED <<mainVars, week_index, thread_index, threads_this_week, message_in_thread,
                   chat_history, agent_responses, member_decision, new_thread_required,
                   persistent_state>>

decide_next_node ==
    /\ pc = "Decider"
    /\ StepAllowed
    /\ steps' = steps + 1
    /\ CASE DeciderBranch = "end" ->
              /\ last' = [op |-> "decide_next_node", ret |-> "END", consulted |-> FALSE]
              /\ pc' = DeciderEdge("END")
              /\ UNCHANGED <<simulation_counters, next_uuid, eventVars, chainVars>>
         [] DeciderBranch = "diagnostic" ->
              /\ create_diagnostic_event
              /\ last' = [op |-> "decide_next_node", ret |-> "TestPanelNode", consulted |-> FALSE]
              /\ pc' = DeciderEdge("TestPanelNode")
              /\ UNCHANGED <<completed_events, chainVars>>
         [] OTHER ->
              \E answer \in RouterAnswers :
                 LET tracked == TrackedChains
                     result == ValidateDecision(answer, tracked.chains)
                 IN  /\ active_decision_chains' = tracked.chains
                     /\ current_decision_context' = tracked.context
                     /\ next_uuid' = IF tracked.created THEN next_uuid + 1 ELSE next_uuid
                     /\ last' = [op |-> "decide_next_node", ret |-> result, consulted |-> TRUE,
                                 raises |-> answer.raises,
                                 decision |-> NormalizeAnswer(answer.content)]
                     /\ pc' = DeciderEdge(result)
                     /\ UNCHANGED <<simulation_counters, eventVars, completed_decision_chains>>
    /\ UNCHANGED <<mainVars, week_index, thread_index, threads_this_week, message_in_thread,
                   chat_history, agent_responses, member_decision, new_thread_required,
                   persistent_state>>

\* the chains after the loop of end_conversation_node has finalized each of them
FinalizedAtEnd(chain) ==
    Finalized(chain, "Conversation thread ended",
              "Decision chain completed with conversation", "System")

EndChains == [i \in 1..Len(active_decision_chains) |-> FinalizedAtEnd(active_decision_chains[i])]

\* end_conversation_node, and the merge of the final state into persistent_state
end_conversation_node ==
    /\ pc = "EndConversation"
    /\ StepAllowed
    /\ steps' = 0
    /\ new_thread_required' = TRUE
    /\ simulation_counters' =
           IF simulation_counters # None
           THEN <<[simulation_counters[1] EXCEPT
                      !.weeks_since_last_trip = @ + 1,
                      !.weeks_since_last_diagnostic = @ + 1]>>
           ELSE simulation_counters
    /\ active_decision_chains' = EndChains
    /\ current_decision_context' =
           IF current_decision_context # None
           THEN LET i == FindById(active_decision_chains, "decision_id",
                                  current_decision_context[1].decision_id, 1)
                IN  IF i # 0 THEN <<EndChains[i]>> ELSE current_decision_context
           ELSE current_decision_context
    /\ pc' = "thread_done"
    /\ last' = [op |-> "EndConversation"]
    /\ UNCHANGED <<mainVars, week_index, thread_index, threads_this_week, message_in_thread,
                   chat_history, agent_responses, member_decision, next_uuid,
                   eventVars, completed_decision_chains>>
    /\ persistent_state' = ThreadLocalKeys'

----------------------------------------------------------------------------
(* The run of main(): the graph of build_graph inside the week/thread loops *)

\* weeks_since_last_diagnostic as the onboarding collaborator may set it
InitialDiagnosticWeeks == {11, 12}

\* member_state["simulation_counters"] after onboarding: absent, or present
\* with some weeks since the last diagnostic
OnboardingCounters ==
    {None} \cup {<<[weeks_since_last_trip |-> 0, weeks_since_last_diagnostic |-> d]>> :
                     d \in InitialDiagnosticWeeks}

Init ==
    /\ InitialConversationalState
    /\ pc = "main"
    /\ threads_this_week = 0
    /\ simulation_counters \in OnboardingCounters
    /\ persistent_state = [member_decision |-> "None", new_thread_required |-> FALSE,
                           current_decision_context |-> None]
    /\ NoRun
    /\ last = [op |-> "init"]

Next ==
    \/ StartWeek
    \/ NextThread
    \/ SaveCheckpoint
    \/ FinishRun
    \/ member_node
    \/ decide_next_node
    \/ ruby_node
    \/ specialist_node
    \/ carla_node
    \/ test_panel_node
    \/ agent_response_collector
    \/ end_conversation_node
    \/ graph_recursion_error

Spec == Init /\ [][Next]_vars

\* every new message gets the earliest timestamp append_message can draw; no
\* node and no edge reads a timestamp, so the draw does not change which
\* steps a run can take
EarliestTimestamps ==
    Len(chat_history') > Len(chat_history) =>
        \A t \in NextTimestamps : chat_history'[Len(chat_history')].timestamp <= t

NextRun == Next /\ EarliestTimestamps

\* main() is a sequential program: whenever it can take a step it does
FairSpec == Init /\ [][NextRun]_vars /\ WF_vars(NextRun)

----------------------------------------------------------------------------
(* main.py: the start of main(), which resumes from a checkpoint or starts fresh *)

\* the weeks whose checkpoint file exists: list_available_checkpoints
available_checkpoints == {c.week : c \in checkpoints}

Max(S) == CHOOSE x \in S : \A y \in S : y <= x

\* the state a run leaves in the checkpoint of a week when every thread of
\* the run failed in its first node: the initial state with the week and the
\* thread index of the last thread
FailedRunSnapshot(week) ==
    [week_index                |-> week,
     thread_index              |-> 2,
     message_in_thread         |-> 0,
     chat_history              |-> <<>>,
     agent_responses           |-> <<>>,
     member_decision           |-> "None",
     new_thread_required       |-> FALSE,
     simulation_counters       |-> None,
     active_events             |-> <<>>,
     completed_events          |-> <<>>,
     active_decision_chains    |-> <<>>,
     completed_decision_chains |-> <<>>,
     current_decision_context  |-> None]

\* the checkpoint files a week can have: none, one json.load accepts, or one
\* it rejects
CheckpointFiles(week) ==
    {{}, {[week |-> week, loadable |-> TRUE, state |-> FailedRunSnapshot(week)]},
     {[week |-> week, loadable |-> FALSE]}}

RECURSIVE CheckpointStores(_)
CheckpointStores(week) ==
    IF week = 0 THEN {{}}
    ELSE {files \cup store : files \in CheckpointFiles(week), store \in CheckpointStores(week - 1)}

\* --resume: absent, 0, a week, or a week past the last one
ResumeArguments == {None} \cup {<<w>> : w \in 0..(MaxWeeks + 1)}

\* what the operator may type at the prompt: a number, text that is no number, or Ctrl-C
OperatorInputs ==
    {[kind |-> "number", n |-> w] : w \in 0..(MaxWeeks + 1)}
    \cup {[kind |-> "text"], [kind |-> "interrupt"]}

\* load_checkpoint: the state of the week's file, None when the file is
\* missing or cannot be read
load_checkpoint(week) ==
    IF \E c \in checkpoints : c.week = week /\ c.loadable
    THEN <<(CHOOSE c \in checkpoints : c.week = week /\ c.loadable).state>>
    ELSE None

\* persistent_state = create_initial_conversational_state()
StartFresh ==
    /\ week_index' = 1
    /\ thread_index' = 1
    /\ message_in_thread' = 0
    /\ chat_history' = <<>>
    /\ agent_responses' = <<>>
    /\ member_decision' = "None"
    /\ new_thread_required' = FALSE
    /\ simulation_counters' \in OnboardingCounters
    /\ active_events' = <<>>
    /\ completed_events' = <<>>
    /\ active_decision_chains' = <<>>
    /\ completed_decision_chains' = <<>>
    /\ current_decision_context' = None
    /\ start_week' = 1

\* mutant: the run starts again at the week it resumed from
StartFromSameWeek(state, week) ==
    /\ week_index' = state.week_index
    /\ thread_index' = state.thread_index
    /\ message_in_thread' = state.message_in_thread
    /\ chat_history' = state.chat_history
    /\ agent_responses' = state.agent_responses
    /\ member_decision' = state.member_decision
    /\ new_thread_required' = state.new_thread_required
    /\ simulation_counters' = state.simulation_counters
    /\ active_events' = state.active_events
    /\ completed_events' = state.completed_events
    /\ active_decision_chains' = state.active_decision_chains
    /\ completed_decision_chains' = state.completed_decision_chains
    /\ current_decision_context' = state.current_decision_context
    /\ start_week' = week

\* persistent_state = the loaded state, start_week = resume_week + 1
StartFrom(state, week) ==
    /\ week_index' = state.week_index
    /\ thread_index' = state.thread_index
    /\ message_in_thread' = state.message_in_thread
    /\ chat_history' = state.chat_history
    /\ agent_responses' = state.agent_responses
    /\ member_decision' = state.member_decision
    /\ new_thread_required' = state.new_thread_required
    /\ simulation_counters' = state.simulation_counters
    /\ active_events' = state.active_events
    /\ completed_events' = state.completed_events
    /\ active_decision_chains' = state.active_decision_chains
    /\ completed_decision_chains' = state.completed_decision_chains
    /\ current_decision_context' = state.current_decision_context
    /\ start_week' = week + 1

\* get_user_choice_for_resume returns its choice
ResumeChosen(choice, asked) ==
    /\ resume_week' = choice
    /\ pc' = "resume_chosen"
    /\ last' = [op |-> "get_user_choice_for_resume", asked |-> asked]

\* get_user_choice_for_resume in automatic mode
AutoChoice ==
    IF operator.resume # None /\ operator.resume[1] = 0 THEN None
    ELSE IF operator.resume # None /\ operator.resume[1] \in available_checkpoints
    THEN operator.resume
    ELSE <<Max(available_checkpoints)>>

\* get_user_choice_for_resume: one pass through the function, or one round
\* of its input loop
get_user_choice_for_resume ==
    /\ pc = "startup"
    /\ IF available_checkpoints = {}
       THEN ResumeChosen(None, operator.resume)
       ELSE IF operator.auto
       THEN ResumeChosen(AutoChoice, operator.resume)
       ELSE \E input \in OperatorInputs :
              CASE input.kind = "interrupt" -> ResumeChosen(None, None)
                [] input.kind = "number" /\ input.n = 0 -> ResumeChosen(None, None)
                [] input.kind = "number" /\ input.n \in available_checkpoints ->
                       ResumeChosen(<<input.n>>, <<input.n>>)
                [] OTHER ->
                       /\ last' = [op |-> "prompt", input |-> input]
                       /\ UNCHANGED <<pc, resume_week>>
    /\ UNCHANGED <<week_index, thread_index, threads_this_week, message_in_thread,
                   chat_history, agent_responses, member_decision, new_thread_required,
                   simulation_counters, persistent_state, checkpoints, operator,
                   start_week, steps, next_uuid, eventVars, chainVars>>

\* main(), lines 198-210: load the chosen checkpoint or create the initial state
load_or_create_state ==
    /\ pc = "resume_chosen"
    /\ LET loaded == IF resume_week # None THEN load_checkpoint(resume_week[1]) ELSE None
       IN  IF loaded # None
           THEN StartFrom(loaded[1], resume_week[1])
           ELSE StartFresh
    /\ pc' = "main"
    /\ persistent_state' = ThreadLocalKeys'
    /\ last' = [op |-> "main", asked |-> last.asked]
    /\ UNCHANGED <<threads_this_week, checkpoints, operator, resume_week, steps, next_uuid>>

InitResume ==
    /\ InitialConversationalState
    /\ pc = "startup"
    /\ threads_this_week = 0
    /\ simulation_counters = None
    /\ persistent_state = None
    /\ checkpoints \in CheckpointStores(MaxWeeks)
    /\ operator \in [auto : BOOLEAN, resume : ResumeArguments]
    /\ resume_week = None
    /\ start_week = 0
    /\ steps = 0
    /\ last = [op |-> "init"]

NextResume ==
    \/ get_user_choice_for_resume
    \/ load_or_create_state

SpecResume == InitResume /\ [][NextResume]_vars

\* main() from its first line to its last: the start, then the week loop
NextMain ==
    \/ NextResume
    \/ NextRun

\* python main.py --auto, with any checkpoint files left by earlier runs
InitMain ==
    /\ InitResume
    /\ operator = [auto |-> TRUE, resume |-> None]

SpecMain == InitMain /\ [][NextMain]_vars

----------------------------------------------------------------------------
(* detect_decision_point applied to any last agent response *)

OptionalResponseKeys == {"recommendations", "medications", "tests", "analysis", "confidence"}

\* agent responses with any subset of the optional AgentOutput keys; lists are
\* empty or not, analysis is empty or not, confidence is 0, 0.5, 0.6 or 1
DetectResponses ==
    {[k \in K \cup {"agent"} |->
         CASE k = "agent"           -> "DrWarren"
           [] k = "recommendations" -> rec
           [] k = "medications"     -> med
           [] k = "tests"           -> tst
           [] k = "analysis"        -> an
           [] OTHER                 -> conf] :
       K \in SUBSET OptionalResponseKeys,
       rec \in {<<>>, <<"x">>}, med \in {<<>>, <<"m">>}, tst \in {<<>>, <<"y">>},
       an \in {"", "a"}, conf \in {0, 5, 6, 10}}

\* a decision-worthy response that precedes the last one
EarlierResponse == [agent |-> "Carla", recommendations |-> <<"x">>, tests |-> <<"y">>]

InitDetect ==
    /\ pc = "detect"
    /\ week_index = 1
    /\ thread_index = 1
    /\ threads_this_week = 0
    /\ message_in_thread = 0
    /\ chat_history = <<>>
    /\ agent_responses \in {<<>>} \cup {<<r>> : r \in DetectResponses}
                               \cup {<<EarlierResponse, r>> : r \in DetectResponses}
    /\ member_decision = "None"
    /\ new_thread_required = FALSE
    /\ simulation_counters = None
    /\ active_events = <<>>
    /\ completed_events = <<>>
    /\ active_decision_chains = <<>>
    /\ completed_decision_chains = <<>>
    /\ current_decision_context = None
    /\ persistent_state = None
    /\ NoRun
    /\ next_uuid = 1
    /\ last = [op |-> "init"]

\* one call of detect_decision_point(state)
CallDetectDecisionPoint ==
    /\ pc = "detect"
    /\ pc' = "detected"
    /\ last' = [op |-> "detect_decision_point", ret |-> detect_decision_point]
    /\ UNCHANGED <<mainVars, steps, week_index, thread_index, threads_this_week, message_in_thread,
                   chat_history, agent_responses, member_decision, new_thread_required,
                   simulation_counters, persistent_state, next_uuid, eventVars, chainVars>>

NextDetect == CallDetectDecisionPoint

SpecDetect == InitDetect /\ [][NextDetect]_vars

----------------------------------------------------------------------------
(* The message log over the threads of a week: threads as long as the step
   budget of main() allows *)

\* the recursion_limit main() passes to graph.stream
recursion_limit == 150

\* a member turn followed by the decider takes 2 supersteps, so a thread can
\* hold one more message while twice its number fits the step budget
ThreadBudgetAllows == 2 * (message_in_thread + 1) <= recursion_limit

\* the log after two threads of one member message each (the member ended
\* both at once), with the jitter of each thread's start
ShortThreadLogs ==
    {<<ChatMsg("member", "member", calculate_conversation_timestamp(1, 1, 0, hv1, 3)),
       ChatMsg("member", "member", calculate_conversation_timestamp(1, 2, 0, hv2, 3))>> :
         hv1 \in HourVariations, hv2 \in HourVariations}

\* week 1, at the start of the third of four threads
InitLog ==
    /\ pc = "log"
    /\ week_index = 1
    /\ thread_index = 3
    /\ threads_this_week = 4
    /\ message_in_thread = 0
    /\ chat_history \in ShortThreadLogs
    /\ agent_responses = <<>>
    /\ member_decision = "END_TURN"
    /\ new_thread_required = TRUE
    /\ simulation_counters = None
    /\ active_events = <<>>
    /\ completed_events = <<>>
    /\ active_decision_chains = <<>>
    /\ completed_decision_chains = <<>>
    /\ current_decision_context = None
    /\ persistent_state = [member_decision |-> "END_TURN", new_thread_required |-> TRUE,
                           current_decision_context |-> None]
    /\ NoRun
    /\ next_uuid = 1
    /\ last = [op |-> "init"]

\* append_message called by the member's node in the running thread
append_message ==
    /\ pc = "log"
    /\ ThreadBudgetAllows
    /\ Len(chat_history) < MaxLogMessages
    /\ \E timestamp \in NextTimestamps : AppendMessage("member", "member", timestamp)
    /\ last' = [op |-> "append_message"]
    /\ UNCHANGED <<mainVars, steps, pc, week_index, thread_index, threads_this_week,
                   agent_responses, member_decision, new_thread_required,
                   simulation_counters, persistent_state, next_uuid, eventVars, chainVars>>

\* the thread ends and main() starts the next thread of the week
start_next_thread ==
    /\ pc = "log"
    /\ message_in_thread > 0
    /\ thread_index < threads_this_week
    /\ thread_index' = thread_index + 1
    /\ message_in_thread' = 0
    /\ last' = [op |-> "next_thread"]
    /\ UNCHANGED <<mainVars, steps, pc, week_index, threads_this_week, chat_history,
                   agent_responses, member_decision, new_thread_required,
                   simulation_counters, persistent_state, next_uuid, eventVars, chainVars>>

NextLog ==
    \/ append_message
    \/ start_next_thread

SpecLog == InitLog /\ [][NextLog]_vars

----------------------------------------------------------------------------
(* Properties of the router and of the graph *)

\* the indices of chat_history that belong to the thread being run
ThreadMessages == (Len(chat_history) - message_in_thread + 1)..Len(chat_history)

LastResponse == agent_responses[Len(agent_responses)]

DiagnosticDue ==
    /\ simulation_counters # None
    /\ simulation_counters[1].weeks_since_last_diagnostic >= 12

\* C1 (as claimed): within a thread no two consecutive messages both have a
\* specialist role: after a specialist's message the next message of the
\* thread is the member's.
C1_TurnAlternation ==
    \A i \in ThreadMessages :
        (i - 1) \in ThreadMessages =>
            ~(/\ chat_history[i].role \in SpecialistRoles
              /\ chat_history[i - 1].role \in SpecialistRoles)

\* C2 (as claimed): when decide_next_node runs with member_decision not
\* END_TURN, no diagnostic due and the last agent response naming a valid
\* specialist key K in expert_needed, it returns the node of K, whatever the
\* routing collaborator answers.
C2_ExplicitHandoffWins ==
    [][(/\ pc = "Decider"
        /\ StepAllowed
        /\ member_decision # "END_TURN"
        /\ ~DiagnosticDue
        /\ agent_responses # <<>>
        /\ Get(LastResponse, "expert_needed", "None") \in Range(AGENT_KEYS))
       => last'.ret = AGENT_NODE_MAP[Get(LastResponse, "expert_needed", "None")]]_vars

\* C3: when decide_next_node runs with member_decision = END_TURN it returns
\* END without consulting the routing collaborator and changes nothing: no
\* event, no counter reset, no chain created or enriched; the EndConversation
\* node that follows leaves every chain of active_decision_chains with
\* status implemented and a final decision.
C3_EndSignalFirst ==
    [][/\ (pc = "Decider" /\ StepAllowed /\ member_decision = "END_TURN") =>
             /\ last'.op = "decide_next_node"
             /\ last'.ret = "END"
             /\ ~last'.consulted
             /\ pc' = "EndConversation"
             /\ UNCHANGED <<simulation_counters, eventVars, chainVars, next_uuid,
                            chat_history, agent_responses>>
       /\ (pc = "EndConversation" /\ StepAllowed) =>
             /\ Len(active_decision_chains') = Len(active_decision_chains)
             /\ \A i \in 1..Len(active_decision_chains') :
                    /\ active_decision_chains'[i].status = "implemented"
                    /\ active_decision_chains'[i].final_decision # ""
                    /\ active_decision_chains'[i].decision_id
                           = active_decision_chains[i].decision_id]_vars

\* C3 witness: the decider has returned END on END_TURN although a diagnostic
\* is due, a chain is active and the last response is decision-worthy
C3_Witness ==
    /\ pc = "EndConversation"
    /\ last.op = "decide_next_node"
    /\ last.ret = "END"
    /\ ~last.consulted
    /\ member_decision = "END_TURN"
    /\ DiagnosticDue
    /\ active_decision_chains # <<>>
    /\ detect_decision_point

IsProposedDiagnostic(event) == event.Type = "Diagnostic" /\ event.status = "proposed"

DiagnosticCounter ==
    IF simulation_counters = None THEN 0
    ELSE simulation_counters[1].weeks_since_last_diagnostic

\* C4: when decide_next_node runs with weeks_since_last_diagnostic >= 12 and
\* member_decision not END_TURN it returns TestPanelNode without consulting
\* the collaborator, the counter is 0 afterwards and exactly one event, a
\* proposed Diagnostic, has been appended to active_events.  The counter then
\* stays below 12 until the next router invocation: only the decider and
\* EndConversation change it, and EndConversation is entered from the decider
\* only.
C4_CadenceOverride ==
    [][/\ (pc = "Decider" /\ StepAllowed /\ member_decision # "END_TURN" /\ DiagnosticDue) =>
             /\ last'.ret = "TestPanelNode"
             /\ ~last'.consulted
             /\ pc' = "TestPanelNode"
             /\ simulation_counters'[1].weeks_since_last_diagnostic = 0
             /\ Len(active_events') = Len(active_events) + 1
             /\ SubSeq(active_events', 1, Len(active_events)) = active_events
             /\ IsProposedDiagnostic(active_events'[Len(active_events')])
             /\ UNCHANGED <<completed_events, chainVars, chat_history, agent_responses>>
       /\ DiagnosticCounter' # DiagnosticCounter => pc \in {"Decider", "EndConversation"}
       /\ pc' = "EndConversation" => pc = "Decider"]_vars

\* C4 witness: the cadence branch was taken in a thread that follows a
\* specialist's response
C4_Witness ==
    /\ pc = "TestPanelNode"
    /\ last.op = "decide_next_node"
    /\ last.ret = "TestPanelNode"
    /\ member_decision # "END_TURN"
    /\ simulation_counters # None
    /\ simulation_counters[1].weeks_since_last_diagnostic = 0
    /\ agent_responses # <<>>
    /\ \E i \in 1..Len(active_events) : IsProposedDiagnostic(active_events[i])

\* the answers decide_next_node recognizes
Recognized(decision) ==
    \/ decision = <<"END">>
    \/ decision = <<"Member">>
    \/ Len(decision) = 1 /\ decision[1] \in Range(AGENT_KEYS)

\* C5: the value decide_next_node returns is END, Member or a specialist node
\* name; when the collaborator raised or its answer is none of END, Member
\* and the agent keys, the value is Member and the member's node runs next.
C5_RouterFallback ==
    last.op = "decide_next_node" =>
        /\ last.ret \in RouterResults
        /\ (last.consulted /\ (last.raises \/ ~Recognized(last.decision))) =>
               (last.ret = "Member" /\ pc = "Member")

\* C5 witness: the collaborator answered with text that is no key, and the
\* decider returned Member
C5_Witness ==
    /\ last.op = "decide_next_node"
    /\ last.consulted
    /\ ~last.raises
    /\ ~Recognized(last.decision)
    /\ last.decision # <<>>
    /\ last.ret = "Member"

\* C10: in the thread being run every message after the first has a
\* timestamp strictly greater than its predecessor's, by at least 2 and at
\* most 90 minutes.
C10_TimestampMonotonic ==
    \A i \in ThreadMessages :
        (i - 1) \in ThreadMessages =>
            /\ chat_history[i].timestamp > chat_history[i - 1].timestamp
            /\ chat_history[i].timestamp - chat_history[i - 1].timestamp >= 2
            /\ chat_history[i].timestamp - chat_history[i - 1].timestamp <= 90

\* C10 witness: a thread of three messages, one 2 minutes and one 90 minutes
\* after its predecessor
C10_Witness ==
    /\ message_in_thread >= 3
    /\ \E i, j \in ThreadMessages :
          /\ (i - 1) \in ThreadMessages
          /\ (j - 1) \in ThreadMessages
          /\ chat_history[i].timestamp - chat_history[i - 1].timestamp = 2
          /\ chat_history[j].timestamp - chat_history[j - 1].timestamp = 90

----------------------------------------------------------------------------
(* Properties of decision detection and of provenance *)

\* the signals of the detection rule that hold for a response
SignalsOf(response) ==
    {k \in {"recommendations", "medications", "tests"} :
        k \in DOMAIN response /\ response[k] # <<>>}
    \cup (IF /\ "analysis" \in DOMAIN response
             /\ response.analysis # ""
             /\ "confidence" \in DOMAIN response
             /\ response.confidence > 5
          THEN {"analysis"} ELSE {})

\* C11: detect_decision_point returns true exactly when at least two of the
\* four signals (non-empty recommendations, non-empty medications, non-empty
\* tests, non-empty analysis with confidence > 0.5) hold for the last agent
\* response, and false when agent_responses is empty.
C11_DetectionThreshold ==
    last.op = "detect_decision_point" =>
        last.ret = (/\ agent_responses # <<>>
                    /\ Cardinality(SignalsOf(LastResponse)) >= 2)

\* C11 witness: the call returned false for a response whose only signal is
\* its recommendations, although it carries an analysis with confidence 0.5
\* and follows a decision-worthy response
C11_Witness ==
    /\ last.op = "detect_decision_point"
    /\ last.ret = FALSE
    /\ Len(agent_responses) = 2
    /\ SignalsOf(LastResponse) = {"recommendations"}
    /\ Get(LastResponse, "analysis", "") # ""
    /\ Get(LastResponse, "confidence", 0) = 5

\* the agent named by the last agent response
LastAgent == Get(LastResponse, "agent", "Unknown")

\* the last agent response is decision-worthy by the detection rule
DecisionWorthy ==
    /\ agent_responses # <<>>
    /\ Cardinality(SignalsOf(LastResponse)) >= 2

\* C12: when decide_next_node runs past the end-signal and cadence checks with
\* a decision-worthy last response from agent A, then whatever the routing
\* collaborator does, an active chain exists afterwards (exactly one more id
\* was drawn if there was none) and the first active chain holds an analysis
\* by A; when the last response is not decision-worthy the decider leaves the
\* chains, the context and the id source as they were.
C12_ProvenanceBeforeRouting ==
    [][(pc = "Decider" /\ StepAllowed /\ member_decision # "END_TURN" /\ ~DiagnosticDue) =>
          /\ last'.op = "decide_next_node"
          /\ last'.consulted
          /\ IF DecisionWorthy
             THEN /\ active_decision_chains' # <<>>
                  /\ AnalysesBy(active_decision_chains'[1], LastAgent) # {}
                  /\ IF active_decision_chains = <<>>
                     THEN /\ Len(active_decision_chains') = 1
                          /\ next_uuid' = next_uuid + 1
                          /\ current_decision_context' = <<active_decision_chains'[1]>>
                     ELSE /\ Len(active_decision_chains') = Len(active_decision_chains)
                          /\ next_uuid' = next_uuid
             ELSE UNCHANGED <<chainVars, next_uuid>>
          /\ completed_decision_chains' = completed_decision_chains]_vars

\* C12 witness: right after a specialist's decision-worthy response the
\* decider has opened the first chain and recorded the specialist's analysis,
\* although the collaborator raised
C12_Witness ==
    /\ last.op = "decide_next_node"
    /\ last.consulted
    /\ last.raises
    /\ DecisionWorthy
    /\ chat_history[Len(chat_history)].role \in SpecialistRoles
    /\ Len(active_decision_chains) = 1
    /\ Len(active_decision_chains[1].agent_analyses) = 1
    /\ AnalysesBy(active_decision_chains[1], LastAgent) # {}
    /\ current_decision_context = <<active_decision_chains[1]>>

----------------------------------------------------------------------------
(* Properties of main() *)

\* the state is the one create_initial_conversational_state returns
BrandNewState ==
    /\ week_index = 1
    /\ thread_index = 1
    /\ message_in_thread = 0
    /\ chat_history = <<>>
    /\ agent_responses = <<>>
    /\ active_events = <<>>
    /\ completed_events = <<>>
    /\ active_decision_chains = <<>>
    /\ completed_decision_chains = <<>>
    /\ current_decision_context = None

\* C13 (as claimed): when the operator asked to resume from week W and no
\* checkpoint of W exists, or the checkpoint of W cannot be loaded, main()
\* enters the week loop with start week 1 and a brand-new state.
C13_FreshResume ==
    (/\ pc = "main"
     /\ last.op = "main"
     /\ last.asked # None
     /\ last.asked[1] # 0
     /\ load_checkpoint(last.asked[1]) = None)
    => (start_week = 1 /\ BrandNewState)

\* the node that is next cannot run in the model because chat_history or
\* agent_responses has reached the size the model explores
ModelBoundReached ==
    /\ pc \in GraphNodes
    /\ StepAllowed
    /\ \/ pc = "Member" /\ ~RoomForMessage
       \/ pc = "TestPanelNode" /\ ~RoomForResponse
       \/ /\ pc \in {AGENT_NODE_MAP[k] : k \in {"Ruby", "DrWarren", "Advik", "Carla", "Rachel", "Neel"}}
          /\ (~RoomForMessage \/ ~RoomForResponse)

\* the run is over: every week up to max_weeks has its checkpoint
RunComplete ==
    /\ pc = "done"
    /\ week_index = MaxWeeks
    /\ available_checkpoints = 1..MaxWeeks

\* C14: every thread execution ends, by EndConversation or by an exception
\* (the step budget or a failing node), unless the model's size bound stops
\* it; an exception leaves main() in its thread loop, from where it goes on
\* to the next thread or to the week's checkpoint; and the run ends with
\* every week from the start week to max_weeks processed and checkpointed.
C14_BoundedThreadsAndProgress ==
    /\ [][(pc \in GraphNodes /\ pc' \notin GraphNodes) => pc' = "thread_done"]_vars
    /\ [][steps' <= RecursionLimit]_vars
    /\ [](pc \in GraphNodes => <>(pc = "thread_done" \/ ModelBoundReached))
    /\ [](pc = "thread_done" => <>(pc \in {"Member", "week_done"}))
    /\ <>(RunComplete \/ ModelBoundReached)

\* C14 witness: the run is complete although a thread failed in the
\* TestPanel handler, which left a response without a message
C14_Witness ==
    /\ RunComplete
    /\ \E i \in 1..Len(agent_responses) : agent_responses[i].agent = "TestPanel"
    /\ \A i \in 1..Len(chat_history) : chat_history[i].role # "test_panel"

----------------------------------------------------------------------------
(* Properties of calls with unknown ids, and the frame of finalize_decision *)

\* the tracker calls that take the id of an active chain
ChainMutators ==
    {"add_agent_analysis", "add_evidence", "add_risk_assessment",
     "finalize_decision", "track_outcome"}

\* C15: add_agent_analysis, add_evidence, add_risk_assessment,
\* finalize_decision and track_outcome called with a decision_id that is not
\* in active_decision_chains return false and leave both chain lists and the
\* current decision context unchanged; no id is ever in completed twice, or
\* in active and in completed.
C15_UnknownChainId ==
    /\ [][(/\ last'.op \in ChainMutators
           /\ last'.decision_id \notin ChainIds(active_decision_chains))
          => (last'.ret = FALSE /\ UNCHANGED chainVars)]_vars
    /\ [](\A id \in DecisionIdArgs :
             /\ CountById(completed_decision_chains, id) <= 1
             /\ CountById(active_decision_chains, id)
                    + CountById(completed_decision_chains, id) <= 1)

\* C15 witness: track_outcome was refused for a chain that is already in
\* completed_decision_chains while another chain is active
C15_Witness ==
    /\ last.op = "track_outcome"
    /\ last.ret = FALSE
    /\ last.decision_id \in ChainIds(completed_decision_chains)
    /\ active_decision_chains # <<>>

\* C16: update_event_status called with an event_id that is not in
\* active_events returns false and leaves both event lists unchanged; a call
\* for an active event with a status other than completed and cancelled
\* changes that event's status only and leaves every event where it is.
C16_UnknownEventId ==
    [][last'.op = "update_event_status" =>
          IF last'.event_id \notin EventIds(active_events)
          THEN last'.ret = FALSE /\ UNCHANGED eventVars
          ELSE /\ last'.ret = TRUE
               /\ last'.new_status \notin TerminalEventStatuses =>
                     /\ completed_events' = completed_events
                     /\ Len(active_events') = Len(active_events)
                     /\ \A i \in 1..Len(active_events) :
                            active_events'[i] =
                                IF active_events[i].event_id = last'.event_id
                                THEN [active_events[i] EXCEPT !.status = last'.new_status]
                                ELSE active_events[i]]_vars

\* C16 witness: an update was refused for an event that has been relocated
\* to completed_events, while another event is still active
C16_Witness ==
    /\ last.op = "update_event_status"
    /\ last.ret = FALSE
    /\ last.event_id \in EventIds(completed_events)
    /\ active_events # <<>>

\* C17: finalize_decision on an active chain sets final_decision,
\* decision_rationale, decision_maker, decision_timestamp and status
\* implemented on that chain and nothing else: the chain keeps its place in
\* active_decision_chains with its analyses, evidence and risks, every other
\* chain and completed_decision_chains are unchanged.
C17_FinalizeFrame ==
    [][(last'.op = "finalize_decision" /\ last'.ret = TRUE) =>
          /\ completed_decision_chains' = completed_decision_chains
          /\ Len(active_decision_chains') = Len(active_decision_chains)
          /\ \A i \in 1..Len(active_decision_chains) :
                 active_decision_chains'[i] =
                     IF active_decision_chains[i].decision_id = last'.decision_id
                     THEN [active_decision_chains[i] EXCEPT
                              !.final_decision = "Approved",
                              !.decision_rationale = "Evidence",
                              !.decision_maker = "DrWarren",
                              !.decision_timestamp = "now",
                              !.status = "implemented"]
                     ELSE active_decision_chains[i]]_vars

\* C17 witness: a chain that holds an analysis was finalized while a second
\* chain is active
C17_Witness ==
    /\ last.op = "finalize_decision"
    /\ last.ret = TRUE
    /\ Len(active_decision_chains) = 2
    /\ \E i \in 1..2 :
          /\ active_decision_chains[i].decision_id = last.decision_id
          /\ active_decision_chains[i].status = "implemented"
          /\ active_decision_chains[i].agent_analyses # <<>>

----------------------------------------------------------------------------
(* Properties of the specialist turns and of the end of a thread *)

\* the nodes of the specialists and of the TestPanel handler
SpecialistNodes == {AGENT_NODE_MAP[AGENT_KEYS[i]] : i \in 1..Len(AGENT_KEYS)}

\* C18 (as claimed): every execution of a specialist node, the TestPanel
\* handler included, completes without raising and appends exactly one entry
\* to agent_responses and exactly one message to chat_history.
C18_OneResponseOneMessage ==
    [][(pc \in SpecialistNodes /\ StepAllowed) =>
          /\ Len(agent_responses') = Len(agent_responses) + 1
          /\ Len(chat_history') = Len(chat_history) + 1
          /\ chat_history'[Len(chat_history')].role \in SpecialistRoles
          /\ "raised" \notin DOMAIN last'
          /\ pc' \in GraphNodes]_vars

\* C19 (as claimed): whenever the routing collaborator answers END,
\* decide_next_node returns END, the thread goes to EndConversation and every
\* active decision chain has been finalized, whether or not chains are active.
C19_CollaboratorEnd ==
    [][(/\ pc = "Decider"
        /\ StepAllowed
        /\ last'.op = "decide_next_node"
        /\ last'.consulted
        /\ ~last'.raises
        /\ last'.decision = <<"END">>)
       => /\ last'.ret = "END"
          /\ pc' = "EndConversation"
          /\ \A i \in 1..Len(active_decision_chains') :
                 active_decision_chains'[i].status = "implemented"]_vars

\* C20 (as claimed): when a thread ends through EndConversation every chain
\* that was active is in completed_decision_chains afterwards, with its
\* outcome tracked, and active_decision_chains is empty.
C20_ArchivalAtThreadEnd ==
    [][(pc = "EndConversation" /\ StepAllowed) =>
          /\ active_decision_chains' = <<>>
          /\ ChainIds(active_decision_chains) \subseteq ChainIds(completed_decision_chains')
          /\ \A i \in 1..Len(completed_decision_chains') :
                 completed_decision_chains'[i].status = "completed"]_vars

----------------------------------------------------------------------------
(* Properties of the chain status and of the current decision context *)

\* position of a status in the documented order of a chain's life
ChainRank(status) ==
    CASE status = "pending"     -> 1
      [] status = "in_progress" -> 2
      [] status = "implemented" -> 3
      [] OTHER                  -> 4

AllChains == active_decision_chains \o completed_decision_chains

StatusOfChain(s, id) == s[FindById(s, "decision_id", id, 1)].status

\* C21 (as claimed): a chain's status only advances in the order pending,
\* in_progress, implemented, completed; a chain becomes completed only from
\* implemented; and a chain that holds an agent analysis is not pending.
C21_ChainStatusOrder ==
    /\ [][\A id \in ChainIds(AllChains) :
             /\ ChainRank(StatusOfChain(AllChains', id)) >= ChainRank(StatusOfChain(AllChains, id))
             /\ (/\ StatusOfChain(AllChains', id) = "completed"
                 /\ StatusOfChain(AllChains, id) # "completed")
                => StatusOfChain(AllChains, id) = "implemented"]_vars
    /\ [](\A i \in 1..Len(AllChains) :
             AllChains[i].agent_analyses # <<>> => AllChains[i].status # "pending")

\* C29: current_decision_context is None or equal to a chain of
\* active_decision_chains, and its decision_id is never the id of a chain in
\* completed_decision_chains.
C29_ContextAlwaysLive ==
    current_decision_context # None =>
        /\ \E i \in 1..Len(active_decision_chains) :
               active_decision_chains[i] = current_decision_context[1]
        /\ current_decision_context[1].decision_id \notin ChainIds(completed_decision_chains)

\* C29 witness: the context is the second chain and holds an analysis that
\* was added after the first chain was archived
C29_Witness ==
    /\ last.op = "add_agent_analysis"
    /\ last.ret = TRUE
    /\ completed_decision_chains # <<>>
    /\ current_decision_context # None
    /\ current_decision_context[1].decision_id = last.decision_id
    /\ current_decision_context[1].agent_analyses # <<>>

----------------------------------------------------------------------------
(* Properties of the decision chains under orchestration *)

\* C22: in every state of a run of the graph, across threads and weeks,
\* active_decision_chains holds at most one chain.
C22_SingleActiveChain == Len(active_decision_chains) <= 1

\* C22 witness: two specialists gave decision-worthy responses and both
\* analyses are in the one active chain, which has survived a thread end
C22_Witness ==
    /\ Len(active_decision_chains) = 1
    /\ Len(active_decision_chains[1].agent_analyses) = 2
    /\ active_decision_chains[1].status = "implemented"

\* the agent names of a chain's analyses, in the order of the list
AnalysisNames(chain) ==
    [k \in 1..Len(chain.agent_analyses) |-> chain.agent_analyses[k].agent_name]

\* the agent names recorded in active_chains[0], the chain the decider adds to
FirstChainNames ==
    IF active_decision_chains = <<>> THEN <<>> ELSE AnalysisNames(active_decision_chains[1])

\* C23: in every state of a run of the graph the agent names in each chain's
\* agent_analyses are pairwise distinct, and they are in the order of first
\* observation: a step changes the names of the decider's chain only when the
\* decider's tracking block sees a decision-worthy response of an agent that
\* has no analysis yet, and it then puts that agent after all earlier ones;
\* a further decision-worthy response of a recorded agent changes nothing.
C23_OneAnalysisPerSpecialist ==
    /\ [](\A i \in 1..Len(AllChains) :
             \A j, k \in 1..Len(AllChains[i].agent_analyses) :
                 j # k => AnalysisNames(AllChains[i])[j] # AnalysisNames(AllChains[i])[k])
    /\ [][LET first_seen == /\ pc = "Decider"
                            /\ StepAllowed
                            /\ member_decision # "END_TURN"
                            /\ ~DiagnosticDue
                            /\ DecisionWorthy
                            /\ LastAgent \notin Range(FirstChainNames)
          IN  FirstChainNames' = IF first_seen
                                 THEN Append(FirstChainNames, LastAgent)
                                 ELSE FirstChainNames]_vars

\* C23 witness: the decider has observed a second decision-worthy response of
\* the specialist whose analysis is already in the chain, and the chain still
\* holds one analysis
C23_Witness ==
    /\ last.op = "decide_next_node"
    /\ last.consulted
    /\ Len(agent_responses) = 2
    /\ Get(agent_responses[1], "agent", "Unknown") = LastAgent
    /\ Cardinality(SignalsOf(agent_responses[1])) >= 2
    /\ DecisionWorthy
    /\ Len(active_decision_chains) = 1
    /\ AnalysisNames(active_decision_chains[1]) = <<LastAgent>>

----------------------------------------------------------------------------
(* Properties of the thread end and of the diagnostic cadence *)

\* weeks_since_last_diagnostic as the checkpoint written at the end of the
\* week before the current one recorded it
CounterAtWeekStart ==
    {c.state.simulation_counters[1].weeks_since_last_diagnostic :
         c \in {d \in checkpoints : /\ d.week + 1 = week_index
                                    /\ d.state.simulation_counters # None}}

\* C24 (as claimed): weeks_since_last_diagnostic counts simulated weeks: at
\* any point of a week it is at most 1 more than it was when the week before
\* ended, however many threads the week has.
C24_CadenceInWeeks ==
    simulation_counters # None =>
        \A at_start \in CounterAtWeekStart :
            simulation_counters[1].weeks_since_last_diagnostic <= at_start + 1

\* C25: each execution of EndConversation sets new_thread_required, adds
\* exactly 1 to weeks_since_last_trip and to weeks_since_last_diagnostic when
\* simulation_counters exists, and appends no message; the first member turn
\* of a thread that follows an ended thread sees the flag set and a non-empty
\* history and resets the flag; the flag is never set during a specialist
\* turn.
C25_ThreadEndSideEffects ==
    /\ [][(pc = "EndConversation" /\ StepAllowed) =>
             /\ new_thread_required' = TRUE
             /\ simulation_counters # None =>
                    /\ simulation_counters' # None
                    /\ simulation_counters'[1].weeks_since_last_trip
                           = simulation_counters[1].weeks_since_last_trip + 1
                    /\ simulation_counters'[1].weeks_since_last_diagnostic
                           = simulation_counters[1].weeks_since_last_diagnostic + 1
             /\ simulation_counters = None => simulation_counters' = None
             /\ chat_history' = chat_history
             /\ message_in_thread' = message_in_thread]_vars
    /\ [][(/\ pc = "Member"
           /\ last'.op = "member_node"
           /\ message_in_thread = 0
           /\ persistent_state.new_thread_required = TRUE) =>
             /\ new_thread_required = TRUE
             /\ chat_history # <<>>
             /\ new_thread_required' = FALSE]_vars
    /\ [](pc \in SpecialistNodes => new_thread_required = FALSE)

\* C25 witness: a specialist's turn in a thread that follows an ended thread,
\* whose end advanced both counters
C25_Witness ==
    /\ pc \in SpecialistNodes
    /\ persistent_state.new_thread_required = TRUE
    /\ new_thread_required = FALSE
    /\ simulation_counters # None
    /\ simulation_counters[1].weeks_since_last_trip >= 1
    /\ simulation_counters[1].weeks_since_last_diagnostic >= 1
    /\ message_in_thread >= 1
    /\ Len(chat_history) > message_in_thread

----------------------------------------------------------------------------
(* Properties of the week loop and of the checkpoints *)

\* main() is between the start of a week's first thread and the end of its last
InsideWeek == pc \in GraphNodes \cup {"thread_done"}

\* a step that starts a thread
ThreadStarts == pc \in {"main", "week_done", "thread_done"} /\ pc' = "Member"

----------------------------------------------------------------------------
(* Properties of the message log *)

\* C27: chat_history only grows, by one message at the end per step, and the
\* messages it held stay as they were; a step that appends a message and
\* leaves the thread running adds exactly 1 to message_in_thread; the counter
\* changes in no other way inside a thread and is 0 when a thread starts, so
\* inside a thread it is the number of messages appended since the thread
\* started.
C27_AppendOnlyLog ==
    /\ [][/\ Len(chat_history') \in {Len(chat_history), Len(chat_history) + 1}
          /\ SubSeq(chat_history', 1, Len(chat_history)) = chat_history]_vars
    /\ [][(chat_history' # chat_history /\ pc' \in GraphNodes) =>
             message_in_thread' = message_in_thread + 1]_vars
    /\ [][(chat_history' = chat_history /\ pc' \in GraphNodes) =>
             message_in_thread' = IF ThreadStarts THEN 0 ELSE message_in_thread]_vars
    /\ [](pc \in GraphNodes => message_in_thread <= Len(chat_history))

\* C27 witness: in a thread that follows another one, the member and a
\* specialist have each appended a message and the counter is 2
C27_Witness ==
    /\ pc \in GraphNodes
    /\ message_in_thread = 2
    /\ Len(chat_history) > 2
    /\ chat_history[Len(chat_history)].role \in SpecialistRoles
    /\ chat_history[Len(chat_history) - 1].role = "member"
    /\ thread_index >= 2

\* the member collaborator's output is no JSON, or JSON without a decision key
Malformed(content) == ~content.json \/ "decision" \notin DOMAIN content.obj

\* C28: when the member collaborator's output is malformed, member_node still
\* appends exactly one member message and sets member_decision to END_TURN;
\* the decider invocation that follows returns END, touches neither the log
\* nor the responses, and the thread goes to EndConversation (or is stopped by
\* the step budget): no specialist runs after that message.
C28_MalformedMemberEndsThread ==
    /\ [][(pc = "Member" /\ last'.op = "member_node" /\ Malformed(last'.content)) =>
             /\ Len(chat_history') = Len(chat_history) + 1
             /\ SubSeq(chat_history', 1, Len(chat_history)) = chat_history
             /\ chat_history'[Len(chat_history')].role = "member"
             /\ member_decision' = "END_TURN"
             /\ pc' = "Decider"]_vars
    /\ [][(pc = "Decider" /\ last.op = "member_node" /\ Malformed(last.content)) =>
             /\ pc' \in {"EndConversation", "thread_done"}
             /\ StepAllowed => (/\ last'.op = "decide_next_node"
                                /\ last'.ret = "END"
                                /\ ~last'.consulted
                                /\ pc' = "EndConversation")
             /\ UNCHANGED <<chat_history, agent_responses>>]_vars
    /\ [][pc = "EndConversation" =>
             (pc' = "thread_done" /\ UNCHANGED <<chat_history, agent_responses>>)]_vars

\* C28 witness: after a specialist's turn the member collaborator returned
\* text that is no JSON; the message is in the log and the decider is next
C28_Witness ==
    /\ pc = "Decider"
    /\ last.op = "member_node"
    /\ ~last.content.json
    /\ member_decision = "END_TURN"
    /\ message_in_thread >= 3
    /\ chat_history[Len(chat_history)].role = "member"
    /\ chat_history[Len(chat_history) - 1].role \in SpecialistRoles

\* C30 (as claimed): over a run the timestamps of chat_history are strictly
\* increasing from each message to the next, the last message of a thread and
\* the first message of the following thread included, for any thread length
\* the step budget allows.
C30_GlobalMessageOrder ==
    \A i \in 2..Len(chat_history) :
        chat_history[i].timestamp > chat_history[i - 1].timestamp

====
